---- MODULE Spec2Model ----
(***************************************************************************)
(* The Lighthouse at Tugrul Bay: the browser-side game engine              *)
(* (src/frontend/game.js) and the interpret service it talks to            *)
(* (src/backend/server.js), as a state machine.                            *)
(*                                                                         *)
(* A string that the code splits on whitespace (an engine command) is a    *)
(* sequence of its words; every other string is a TLA+ string.             *)
(***************************************************************************)
EXTENDS Naturals, Sequences, FiniteSets, TLC

VARIABLES
  gameState,   \* the gameState object of game.js
  rooms,       \* rooms[id].items, the only mutable part of the rooms table
  inFlight,    \* handleUserInput invocations suspended at an await, by position
  selectorHidden, \* whether the language selector has been hidden
  lastCall,    \* harness: the most recent direct engine call and what it returned
  script,      \* harness: how much of the end-to-end walkthrough has been replayed
  turn,        \* harness: the trace of the handleUserInput invocation last entered
  server       \* the module scope of server.js

vars == <<gameState, rooms, inFlight, selectorHidden, lastCall, script, turn, server>>

(***************************************************************************)
(* Bounds                                                                  *)
(***************************************************************************)
\* handleUserInput invocations that may be suspended at the same time
MaxInFlight == 2

\* at most this many requests wait for the upstream service at a time
MaxPending == 2

\* the longest sequence of commands a player is given to light the beacon
MaxPlan == 9

(***************************************************************************)
(* JavaScript values                                                       *)
(***************************************************************************)
Null == "null"
Undefined == "undefined"
\* what a property lookup that falls through to Object.prototype yields: a truthy
\* value that is no room id
Inherited == "[inherited]"

\* the lower-case property names every object literal inherits
ObjectPrototypeKeys == {"constructor", "__proto__"}

(***************************************************************************)
(* World model                                                             *)
(***************************************************************************)
RoomIds == {"pier", "beach", "lighthouseExterior", "lighthouseInterior", "lighthouseTop"}

ItemIds == {"lantern", "smallKey"}

\* the rooms with no way down from the top
exits_NoWayDown ==
  [ pier               |-> [north |-> "beach"],
    beach              |-> [south |-> "pier", north |-> "lighthouseExterior"],
    lighthouseExterior |-> [south |-> "beach", inside |-> "lighthouseInterior"],
    lighthouseInterior |-> [down |-> "lighthouseExterior", up |-> "lighthouseTop"],
    lighthouseTop      |-> [d \in {} |-> "pier"] ]

exits ==
  [ pier               |-> [north |-> "beach"],
    beach              |-> [south |-> "pier", north |-> "lighthouseExterior"],
    lighthouseExterior |-> [south |-> "beach", inside |-> "lighthouseInterior"],
    lighthouseInterior |-> [down |-> "lighthouseExterior", up |-> "lighthouseTop"],
    lighthouseTop      |-> [down |-> "lighthouseInterior"] ]

InitialRooms ==
  [ pier               |-> <<>>,
    beach              |-> <<"lantern">>,
    lighthouseExterior |-> <<"smallKey">>,
    lighthouseInterior |-> <<>>,
    lighthouseTop      |-> <<>> ]

ProgressKeys ==
  {"foundLantern", "litLantern", "foundKey", "unlockedDoor", "reachedTop", "litBeacon"}

NoProgress == [k \in ProgressKeys |-> FALSE]

InitialGameState ==
  [ currentRoomId  |-> "pier",
    inventory      |-> <<>>,
    flags          |-> [ lighthouseDoorUnlocked |-> FALSE,
                         lanternLit             |-> FALSE,
                         firstLook              |-> TRUE,
                         visited                |-> {} ],
    puzzleProgress |-> NoProgress,
    gameComplete   |-> FALSE,
    password       |-> Null,
    language       |-> "en" ]

(***************************************************************************)
(* Sequence and string helpers                                             *)
(***************************************************************************)
Range(s) == {s[i] : i \in 1..Len(s)}

\* Array.prototype.includes
Includes(s, x) == x \in Range(s)

\* Array.prototype.indexOf, 1-based; 0 stands for -1
IndexOf(s, x) ==
  IF Includes(s, x) THEN CHOOSE i \in 1..Len(s) : s[i] = x /\ \A j \in 1..(i - 1) : s[j] # x
  ELSE 0

\* Array.prototype.splice(idx, 1)
Splice(s, idx) == [i \in 1..(Len(s) - 1) |-> IF i < idx THEN s[i] ELSE s[i + 1]]

\* String.prototype.toLowerCase on the words that are not already lower case
UpperCaseWords ==
  [ GO |-> "go", Take |-> "take", Lantern |-> "lantern", KEY |-> "key", North |-> "north" ]

toLowerCase(w) == IF w \in DOMAIN UpperCaseWords THEN UpperCaseWords[w] ELSE w

RECURSIVE Join(_)
\* Array.prototype.join(" ")
Join(ws) ==
  IF ws = <<>> THEN ""
  ELSE IF Len(ws) = 1 THEN ws[1]
  ELSE ws[1] \o " " \o Join(Tail(ws))

(***************************************************************************)
(* Engine: a world W is [gameState, rooms]; an engine function returns     *)
(* [ok, W]: its return value and the world it leaves                       *)
(***************************************************************************)
World(gs, rm) == [gameState |-> gs, rooms |-> rm]

Return(ok, W) == [ok |-> ok, W |-> W]

\* normalizeItemName that takes any unknown word for the lantern
normalizeItemName_UnknownIsLantern(word) ==
  LET w == toLowerCase(word)
  IN IF w = "" THEN Null
     ELSE IF w \in {"key", "smallkey", "small key"} THEN "smallKey"
     ELSE IF w \in {"anahtar", "küçük anahtar", "küçükanahtar"} THEN "smallKey"
     ELSE "lantern"

normalizeItemName(word) ==
  LET w == toLowerCase(word)
  IN IF w = "" THEN Null
     ELSE IF w \in {"key", "smallkey", "small key"} THEN "smallKey"
     ELSE IF w \in {"lantern"} THEN "lantern"
     ELSE IF w \in {"anahtar", "küçük anahtar", "küçükanahtar"} THEN "smallKey"
     ELSE IF w \in {"fener", "lamba"} THEN "lantern"
     ELSE Null

\* room.exits[direction]: an own entry, an inherited property, or undefined
ExitLookup(roomId, direction) ==
  IF direction \in DOMAIN exits[roomId] THEN exits[roomId][direction]
  ELSE IF direction \in ObjectPrototypeKeys THEN Inherited
  ELSE Undefined

\* setLocation without the test that the room exists
setLocation_AnyRoom(W, roomId) ==
  [W EXCEPT !.gameState.currentRoomId = roomId,
            !.gameState.flags.visited = @ \cup {roomId}]

setLocation(W, roomId) ==
  IF roomId \notin RoomIds THEN W
  ELSE [W EXCEPT !.gameState.currentRoomId = roomId,
                 !.gameState.flags.visited = @ \cup {roomId}]

\* move that records the top as reached on every successful step
move_AlwaysReachedTop(W, direction) ==
  LET dir    == IF direction \in {"inside", "in"} THEN "inside" ELSE direction
      nextId == ExitLookup(W.gameState.currentRoomId, dir)
  IN IF nextId = Undefined THEN Return(FALSE, W)
     ELSE IF nextId = "lighthouseInterior" /\ ~W.gameState.flags.lighthouseDoorUnlocked
       THEN Return(FALSE, W)
     ELSE Return(TRUE, setLocation([W EXCEPT !.gameState.puzzleProgress.reachedTop = TRUE],
                                   nextId))

\* move that never records that the top was reached
move_NeverReachedTop(W, direction) ==
  LET dir    == IF direction \in {"inside", "in"} THEN "inside" ELSE direction
      nextId == ExitLookup(W.gameState.currentRoomId, dir)
  IN IF nextId = Undefined THEN Return(FALSE, W)
     ELSE IF nextId = "lighthouseInterior" /\ ~W.gameState.flags.lighthouseDoorUnlocked
       THEN Return(FALSE, W)
     ELSE Return(TRUE, setLocation(W, nextId))

\* move without the locked-door test
move_IgnoresLock(W, direction) ==
  LET dir    == IF direction \in {"inside", "in"} THEN "inside" ELSE direction
      nextId == ExitLookup(W.gameState.currentRoomId, dir)
  IN IF nextId = Undefined THEN Return(FALSE, W)
     ELSE LET W1 == IF nextId = "lighthouseTop"
                      THEN [W EXCEPT !.gameState.puzzleProgress.reachedTop = TRUE]
                      ELSE W
          IN Return(TRUE, setLocation(W1, nextId))

move(W, direction) ==
  LET dir    == IF direction \in {"inside", "in"} THEN "inside" ELSE direction
      nextId == ExitLookup(W.gameState.currentRoomId, dir)
  IN IF nextId = Undefined THEN Return(FALSE, W)
     ELSE IF nextId = "lighthouseInterior" /\ ~W.gameState.flags.lighthouseDoorUnlocked
       THEN Return(FALSE, W)
     ELSE LET W1 == IF nextId = "lighthouseTop"
                      THEN [W EXCEPT !.gameState.puzzleProgress.reachedTop = TRUE]
                      ELSE W
          IN Return(TRUE, setLocation(W1, nextId))

\* take that moves the item without recording the discovery
take_NoDiscovery(W, itemWord) ==
  LET roomId        == W.gameState.currentRoomId
      canonicalItem == normalizeItemName(itemWord)
      idx           == IndexOf(W.rooms[roomId], canonicalItem)
  IN IF canonicalItem = Null THEN Return(FALSE, W)
     ELSE IF idx = 0 THEN Return(FALSE, W)
     ELSE Return(TRUE, [W EXCEPT !.rooms[roomId] = Splice(@, idx),
                                 !.gameState.inventory = Append(@, canonicalItem)])

\* take that leaves the item in the room as well
take_KeepsRoomItem(W, itemWord) ==
  LET roomId        == W.gameState.currentRoomId
      canonicalItem == normalizeItemName(itemWord)
      idx           == IndexOf(W.rooms[roomId], canonicalItem)
  IN IF canonicalItem = Null THEN Return(FALSE, W)
     ELSE IF idx = 0 THEN Return(FALSE, W)
     ELSE Return(TRUE, [W EXCEPT !.gameState.inventory = Append(@, canonicalItem)])

\* take that puts the item into the inventory twice
take_Twice(W, itemWord) ==
  LET roomId        == W.gameState.currentRoomId
      canonicalItem == normalizeItemName(itemWord)
      idx           == IndexOf(W.rooms[roomId], canonicalItem)
  IN IF canonicalItem = Null THEN Return(FALSE, W)
     ELSE IF idx = 0 THEN Return(FALSE, W)
     ELSE Return(TRUE,
                 [W EXCEPT !.rooms[roomId] = Splice(@, idx),
                           !.gameState.inventory = @ \o <<canonicalItem, canonicalItem>>,
                           !.gameState.puzzleProgress.foundLantern =
                             @ \/ canonicalItem = "lantern",
                           !.gameState.puzzleProgress.foundKey =
                             @ \/ canonicalItem = "smallKey"])

take(W, itemWord) ==
  LET roomId        == W.gameState.currentRoomId
      canonicalItem == normalizeItemName(itemWord)
      idx           == IndexOf(W.rooms[roomId], canonicalItem)
  IN IF canonicalItem = Null THEN Return(FALSE, W)
     ELSE IF idx = 0 THEN Return(FALSE, W)
     ELSE LET W1 == [W EXCEPT !.rooms[roomId] = Splice(@, idx),
                              !.gameState.inventory = Append(@, canonicalItem)]
              W2 == IF canonicalItem = "lantern"
                      THEN [W1 EXCEPT !.gameState.puzzleProgress.foundLantern = TRUE]
                      ELSE W1
              W3 == IF canonicalItem = "smallKey"
                      THEN [W2 EXCEPT !.gameState.puzzleProgress.foundKey = TRUE]
                      ELSE W2
          IN Return(TRUE, W3)

\* inventory that reports failure while nothing is carried
inventory_EmptyFails(W) == Return(W.gameState.inventory # <<>>, W)

inventory(W) == Return(TRUE, W)

\* examine that only sees what is carried
examine_OnlyHeld(W, itemWord) ==
  LET canonicalItem == normalizeItemName(itemWord)
      hasIt         == Includes(W.gameState.inventory, canonicalItem)
  IN IF canonicalItem = Null THEN Return(FALSE, W)
     ELSE IF ~hasIt THEN Return(FALSE, W)
     ELSE Return(TRUE, W)

examine(W, itemWord) ==
  LET canonicalItem == normalizeItemName(itemWord)
      hasIt         == Includes(W.gameState.inventory, canonicalItem)
      inRoom        == Includes(W.rooms[W.gameState.currentRoomId], canonicalItem)
  IN IF canonicalItem = Null THEN Return(FALSE, W)
     ELSE IF ~hasIt /\ ~inRoom THEN Return(FALSE, W)
     ELSE Return(TRUE, W)

\* computes allComplete and, when it holds, does nothing
checkGameCompletion(W) == W

\* useItem that unlocks the door for a player who does not carry the key
useItem_UnlocksUnheld(W, itemWord) ==
  LET canonicalItem == normalizeItemName(itemWord)
      hasIt         == Includes(W.gameState.inventory, canonicalItem)
      roomId        == W.gameState.currentRoomId
      gs            == W.gameState
  IN IF canonicalItem = Null THEN Return(FALSE, W)
     ELSE IF canonicalItem = "smallKey" /\ roomId = "lighthouseExterior" THEN
       IF gs.flags.lighthouseDoorUnlocked THEN Return(TRUE, W)
       ELSE Return(TRUE, [W EXCEPT !.gameState.flags.lighthouseDoorUnlocked = TRUE,
                                   !.gameState.puzzleProgress.unlockedDoor = TRUE])
     ELSE IF ~hasIt THEN Return(FALSE, W)
     ELSE IF canonicalItem = "lantern" THEN
       IF roomId = "lighthouseTop" THEN
         IF gs.puzzleProgress.litBeacon THEN Return(TRUE, W)
         ELSE IF gs.flags.lanternLit THEN
           Return(TRUE, checkGameCompletion(
                          [W EXCEPT !.gameState.puzzleProgress.litBeacon = TRUE]))
         ELSE Return(FALSE, W)
       ELSE
         IF gs.flags.lanternLit THEN Return(TRUE, W)
         ELSE Return(TRUE, [W EXCEPT !.gameState.flags.lanternLit = TRUE,
                                     !.gameState.puzzleProgress.litLantern = TRUE])
     ELSE Return(TRUE, W)

\* useItem that lights the beacon with an unlit lantern
useItem_BeaconWithoutFlame(W, itemWord) ==
  LET canonicalItem == normalizeItemName(itemWord)
      hasIt         == Includes(W.gameState.inventory, canonicalItem)
      roomId        == W.gameState.currentRoomId
      gs            == W.gameState
  IN IF canonicalItem = Null THEN Return(FALSE, W)
     ELSE IF ~hasIt THEN Return(FALSE, W)
     ELSE IF canonicalItem = "smallKey" /\ roomId = "lighthouseExterior" THEN
       Return(TRUE, [W EXCEPT !.gameState.flags.lighthouseDoorUnlocked = TRUE,
                              !.gameState.puzzleProgress.unlockedDoor = TRUE])
     ELSE IF canonicalItem = "lantern" THEN
       IF roomId = "lighthouseTop" THEN
         Return(TRUE, [W EXCEPT !.gameState.puzzleProgress.litBeacon = TRUE])
       ELSE
         Return(TRUE, [W EXCEPT !.gameState.flags.lanternLit = TRUE,
                                !.gameState.puzzleProgress.litLantern = TRUE])
     ELSE Return(TRUE, W)

\* useItem that reports failure for a door that is already unlocked
useItem_SecondKeyFails(W, itemWord) ==
  LET canonicalItem == normalizeItemName(itemWord)
      hasIt         == Includes(W.gameState.inventory, canonicalItem)
      roomId        == W.gameState.currentRoomId
      gs            == W.gameState
  IN IF canonicalItem = Null THEN Return(FALSE, W)
     ELSE IF ~hasIt THEN Return(FALSE, W)
     ELSE IF canonicalItem = "smallKey" /\ roomId = "lighthouseExterior" THEN
       IF gs.flags.lighthouseDoorUnlocked THEN Return(FALSE, W)
       ELSE Return(TRUE, [W EXCEPT !.gameState.flags.lighthouseDoorUnlocked = TRUE,
                                   !.gameState.puzzleProgress.unlockedDoor = TRUE])
     ELSE IF canonicalItem = "lantern" THEN
       IF roomId = "lighthouseTop" THEN
         IF gs.puzzleProgress.litBeacon THEN Return(TRUE, W)
         ELSE IF gs.flags.lanternLit THEN
           Return(TRUE, [W EXCEPT !.gameState.puzzleProgress.litBeacon = TRUE])
         ELSE Return(FALSE, W)
       ELSE
         IF gs.flags.lanternLit THEN Return(TRUE, W)
         ELSE Return(TRUE, [W EXCEPT !.gameState.flags.lanternLit = TRUE,
                                     !.gameState.puzzleProgress.litLantern = TRUE])
     ELSE Return(TRUE, W)

\* useItem whose lantern, lit anywhere, lights the beacon too
useItem_LanternLightsBeacon(W, itemWord) ==
  LET canonicalItem == normalizeItemName(itemWord)
      hasIt         == Includes(W.gameState.inventory, canonicalItem)
      roomId        == W.gameState.currentRoomId
      gs            == W.gameState
  IN IF canonicalItem = Null THEN Return(FALSE, W)
     ELSE IF ~hasIt THEN Return(FALSE, W)
     ELSE IF canonicalItem = "smallKey" /\ roomId = "lighthouseExterior" THEN
       IF gs.flags.lighthouseDoorUnlocked THEN Return(TRUE, W)
       ELSE Return(TRUE, [W EXCEPT !.gameState.flags.lighthouseDoorUnlocked = TRUE,
                                   !.gameState.puzzleProgress.unlockedDoor = TRUE])
     ELSE IF canonicalItem = "lantern" THEN
       IF roomId = "lighthouseTop" THEN
         IF gs.puzzleProgress.litBeacon THEN Return(TRUE, W)
         ELSE IF gs.flags.lanternLit THEN
           Return(TRUE, checkGameCompletion(
                          [W EXCEPT !.gameState.puzzleProgress.litBeacon = TRUE]))
         ELSE Return(FALSE, W)
       ELSE
         IF gs.flags.lanternLit THEN Return(TRUE, W)
         ELSE Return(TRUE, [W EXCEPT !.gameState.flags.lanternLit = TRUE,
                                     !.gameState.puzzleProgress.litLantern = TRUE,
                                     !.gameState.puzzleProgress.litBeacon = TRUE])
     ELSE Return(TRUE, W)

\* useItem whose key opens the door from any room
useItem_UnlocksAnywhere(W, itemWord) ==
  LET canonicalItem == normalizeItemName(itemWord)
      hasIt         == Includes(W.gameState.inventory, canonicalItem)
      roomId        == W.gameState.currentRoomId
      gs            == W.gameState
  IN IF canonicalItem = Null THEN Return(FALSE, W)
     ELSE IF ~hasIt THEN Return(FALSE, W)
     ELSE IF canonicalItem = "smallKey" THEN
       IF gs.flags.lighthouseDoorUnlocked THEN Return(TRUE, W)
       ELSE Return(TRUE, [W EXCEPT !.gameState.flags.lighthouseDoorUnlocked = TRUE,
                                   !.gameState.puzzleProgress.unlockedDoor = TRUE])
     ELSE IF canonicalItem = "lantern" THEN
       IF roomId = "lighthouseTop" THEN
         IF gs.puzzleProgress.litBeacon THEN Return(TRUE, W)
         ELSE IF gs.flags.lanternLit THEN
           Return(TRUE, checkGameCompletion(
                          [W EXCEPT !.gameState.puzzleProgress.litBeacon = TRUE]))
         ELSE Return(FALSE, W)
       ELSE
         IF gs.flags.lanternLit THEN Return(TRUE, W)
         ELSE Return(TRUE, [W EXCEPT !.gameState.flags.lanternLit = TRUE,
                                     !.gameState.puzzleProgress.litLantern = TRUE])
     ELSE Return(TRUE, W)

\* useItem that has no use for the key away from the door
useItem_KeyOnlyAtDoor(W, itemWord) ==
  LET canonicalItem == normalizeItemName(itemWord)
      hasIt         == Includes(W.gameState.inventory, canonicalItem)
      roomId        == W.gameState.currentRoomId
      gs            == W.gameState
  IN IF canonicalItem = Null THEN Return(FALSE, W)
     ELSE IF ~hasIt THEN Return(FALSE, W)
     ELSE IF canonicalItem = "smallKey" /\ roomId = "lighthouseExterior" THEN
       IF gs.flags.lighthouseDoorUnlocked THEN Return(TRUE, W)
       ELSE Return(TRUE, [W EXCEPT !.gameState.flags.lighthouseDoorUnlocked = TRUE,
                                   !.gameState.puzzleProgress.unlockedDoor = TRUE])
     ELSE IF canonicalItem = "lantern" THEN
       IF roomId = "lighthouseTop" THEN
         IF gs.puzzleProgress.litBeacon THEN Return(TRUE, W)
         ELSE IF gs.flags.lanternLit THEN
           Return(TRUE, checkGameCompletion(
                          [W EXCEPT !.gameState.puzzleProgress.litBeacon = TRUE]))
         ELSE Return(FALSE, W)
       ELSE
         IF gs.flags.lanternLit THEN Return(TRUE, W)
         ELSE Return(TRUE, [W EXCEPT !.gameState.flags.lanternLit = TRUE,
                                     !.gameState.puzzleProgress.litLantern = TRUE])
     ELSE Return(FALSE, W)

useItem(W, itemWord) ==
  LET canonicalItem == normalizeItemName(itemWord)
      hasIt         == Includes(W.gameState.inventory, canonicalItem)
      roomId        == W.gameState.currentRoomId
      gs            == W.gameState
  IN IF canonicalItem = Null THEN Return(FALSE, W)
     ELSE IF ~hasIt THEN Return(FALSE, W)
     ELSE IF canonicalItem = "smallKey" /\ roomId = "lighthouseExterior" THEN
       IF gs.flags.lighthouseDoorUnlocked THEN Return(TRUE, W)
       ELSE Return(TRUE, [W EXCEPT !.gameState.flags.lighthouseDoorUnlocked = TRUE,
                                   !.gameState.puzzleProgress.unlockedDoor = TRUE])
     ELSE IF canonicalItem = "lantern" THEN
       IF roomId = "lighthouseTop" THEN
         IF gs.puzzleProgress.litBeacon THEN Return(TRUE, W)
         ELSE IF gs.flags.lanternLit THEN
           Return(TRUE, checkGameCompletion(
                          [W EXCEPT !.gameState.puzzleProgress.litBeacon = TRUE]))
         ELSE Return(FALSE, W)
       ELSE
         IF gs.flags.lanternLit THEN Return(TRUE, W)
         ELSE Return(TRUE, [W EXCEPT !.gameState.flags.lanternLit = TRUE,
                                     !.gameState.puzzleProgress.litLantern = TRUE])
     ELSE Return(TRUE, W)

DirectionVerbs == {"north", "south", "east", "west", "up", "down", "inside"}

\* engineCommand is the sequence of the words of the command string
Parts(engineCommand) == [i \in 1..Len(engineCommand) |-> toLowerCase(engineCommand[i])]

Verb(engineCommand) == Parts(engineCommand)[1]

Arg(engineCommand) == Join(Tail(Parts(engineCommand)))

\* handleEngineCommand that takes a bare direction word for an unknown verb
handleEngineCommand_BareIgnored(W, engineCommand) ==
  IF engineCommand = <<>> THEN Return(TRUE, W)
  ELSE
    LET verb == Verb(engineCommand)
        arg  == Arg(engineCommand)
    IN CASE verb \in {"look", "l"}             -> Return(TRUE, W)
         [] verb = "help"                      -> Return(TRUE, W)
         [] verb = "go"                        ->
              IF arg = "" THEN Return(FALSE, W) ELSE move(W, arg)
         [] verb \in DirectionVerbs            -> Return(TRUE, W)
         [] verb \in {"take", "get"}           ->
              IF arg = "" THEN Return(FALSE, W) ELSE take(W, arg)
         [] verb \in {"inventory", "inv", "i"} -> inventory(W)
         [] verb \in {"examine", "x"}          ->
              IF arg = "" THEN Return(FALSE, W) ELSE examine(W, arg)
         [] verb = "use"                       ->
              IF arg = "" THEN Return(FALSE, W) ELSE useItem(W, arg)
         [] OTHER                              -> Return(TRUE, W)

\* handleEngineCommand that rejects a verb it does not know
handleEngineCommand_UnknownFails(W, engineCommand) ==
  IF engineCommand = <<>> THEN Return(TRUE, W)
  ELSE
    LET verb == Verb(engineCommand)
        arg  == Arg(engineCommand)
    IN CASE verb \in {"look", "l"}             -> Return(TRUE, W)
         [] verb = "help"                      -> Return(TRUE, W)
         [] verb = "go"                        ->
              IF arg = "" THEN Return(FALSE, W) ELSE move(W, arg)
         [] verb \in DirectionVerbs            -> move(W, verb)
         [] verb \in {"take", "get"}           ->
              IF arg = "" THEN Return(FALSE, W) ELSE take(W, arg)
         [] verb \in {"inventory", "inv", "i"} -> inventory(W)
         [] verb \in {"examine", "x"}          ->
              IF arg = "" THEN Return(FALSE, W) ELSE examine(W, arg)
         [] verb = "use"                       ->
              IF arg = "" THEN Return(FALSE, W) ELSE useItem(W, arg)
         [] OTHER                              -> Return(FALSE, W)

handleEngineCommand(W, engineCommand) ==
  IF engineCommand = <<>> THEN Return(TRUE, W)
  ELSE
    LET verb == Verb(engineCommand)
        arg  == Arg(engineCommand)
    IN CASE verb \in {"look", "l"}             -> Return(TRUE, W)
         [] verb = "help"                      -> Return(TRUE, W)
         [] verb = "go"                        ->
              IF arg = "" THEN Return(FALSE, W) ELSE move(W, arg)
         [] verb \in DirectionVerbs            -> move(W, verb)
         [] verb \in {"take", "get"}           ->
              IF arg = "" THEN Return(FALSE, W) ELSE take(W, arg)
         [] verb \in {"inventory", "inv", "i"} -> inventory(W)
         [] verb \in {"examine", "x"}          ->
              IF arg = "" THEN Return(FALSE, W) ELSE examine(W, arg)
         [] verb = "use"                       ->
              IF arg = "" THEN Return(FALSE, W) ELSE useItem(W, arg)
         [] OTHER                              -> Return(TRUE, W)

(***************************************************************************)
(* Inputs                                                                  *)
(***************************************************************************)
Languages == {"en", "tr"}

\* the engine command strings the model draws from, as word sequences
EngineCommands ==
  { <<>>, <<"look">>, <<"l">>, <<"help">>, <<"dance">>, <<"in">>,
    <<"inventory">>, <<"inv">>, <<"i">> }
  \cup {<<"go">>, <<"go", "in">>, <<"go", "constructor">>, <<"go", "north", "now">>,
        <<"GO", "North">>}
  \cup {<<"go", d>> : d \in DirectionVerbs}
  \cup {<<d>> : d \in DirectionVerbs}
  \cup {<<v, i>> : v \in {"take", "use", "examine"},
                   i \in {"lantern", "key", "fener", "anahtar", "sword"}}
  \cup {<<"take">>, <<"use">>, <<"examine">>, <<"x", "key">>, <<"get", "small", "key">>,
        <<"Take", "Lantern">>, <<"use", "KEY">>}

\* the walkthrough of the specification's end-to-end scenario
EndToEnd ==
  << <<"go", "north">>, <<"take", "lantern">>, <<"use", "lantern">>,
     <<"go", "north">>, <<"take", "key">>, <<"use", "key">>,
     <<"go", "inside">>, <<"go", "up">>, <<"use", "lantern">> >>

NoCall == [fn |-> "none"]

(***************************************************************************)
(* Initial state                                                           *)
(***************************************************************************)
\* the module scope of server.js: the credential read at start, and, per slot, a
\* handler invocation suspended at its await
Slots == 1..MaxPending

Idle == [busy |-> FALSE]

ServerWith(key) == [key |-> key, pending |-> [slot \in Slots |-> Idle]]

\* the trace of a handleUserInput invocation, before the first one
NoTurn ==
  [ selectorHidden |-> FALSE, requests |-> <<>>, log |-> <<>>, executor |-> "not run",
    stateKept |-> TRUE, failure |-> "none", events |-> <<>> ]

Init ==
  /\ gameState = InitialGameState
  /\ rooms = InitialRooms
  /\ inFlight = [first |-> 0, followUp |-> 0]
  /\ selectorHidden = FALSE
  /\ lastCall = NoCall
  /\ script = 0
  /\ turn = NoTurn
  /\ server = ServerWith(TRUE)

(***************************************************************************)
(* Interpret service: what callMistralChat makes of the upstream reply     *)
(***************************************************************************)
\* a JSON object is a function from the names of the fields it has
Has(obj, field) == field \in DOMAIN obj

EmptyObject == [x \in {} |-> x]

Field(name, value) == [x \in {name} |-> value]

AllProgress == [k \in ProgressKeys |-> TRUE]

\* the defaults the service fills in before it answers
callMistralChat(parsed) ==
  [ command        |-> IF Has(parsed, "command") THEN parsed.command ELSE <<"look">>,
    narration      |-> IF Has(parsed, "narration") THEN parsed.narration
                       ELSE "You take a moment to look around.",
    language       |-> IF Has(parsed, "language") THEN parsed.language ELSE "en",
    puzzleProgress |-> IF Has(parsed, "puzzleProgress") THEN parsed.puzzleProgress
                       ELSE NoProgress,
    gameComplete   |-> IF Has(parsed, "gameComplete") THEN parsed.gameComplete
                       ELSE FALSE ]
  @@ (IF Has(parsed, "password") THEN Field("password", parsed.password) ELSE EmptyObject)

\* the engine commands the upstream model is drawn to answer with
ServiceCommands ==
  { <<"look">>, <<"go", "north">>, <<"go", "south">>, <<"go", "inside">>, <<"go", "up">>,
    <<"go", "down">>, <<"take", "lantern">>, <<"take", "key">>, <<"use", "lantern">>,
    <<"use", "key">>, <<"go", "constructor">> }

Optional(name, values) == {EmptyObject} \cup {Field(name, v) : v \in values}

\* the upstream replies, parsed. A faithful reply names a command and echoes the
\* progress the client holds. Any field may also be missing, puzzleProgress may be
\* everything or a single entry, and gameComplete and password may come at any time,
\* alone or next to a command that fails in most rooms.
UpstreamReplies(gs) ==
  { Field("command", c) @@ Field("puzzleProgress", gs.puzzleProgress) :
      c \in ServiceCommands }
  \cup
  { c @@ p @@ g @@ w :
      c \in {EmptyObject},
      p \in Optional("puzzleProgress",
                     {gs.puzzleProgress, AllProgress, Field("litBeacon", TRUE)}),
      g \in Optional("gameComplete", {TRUE}),
      w \in Optional("password", {"TUGRUL_AI"}) }
  \cup
  { Field("command", <<"go", "up">>) @@ n :
      n \in { Field("puzzleProgress", Field("litBeacon", TRUE)),
              Field("gameComplete", TRUE) @@ Field("password", "TUGRUL_AI") } }

\* the replies to the failure-explanation request: one that only explains, and one
\* that names a command and carries every other field
FollowUpReplies(gs) ==
  { Field("puzzleProgress", gs.puzzleProgress),
    Field("command", <<"go", "north">>) @@ Field("puzzleProgress", AllProgress)
      @@ Field("gameComplete", TRUE) @@ Field("password", "TUGRUL_AI") }

(***************************************************************************)
(* Interpretation service: the upstream content and the endpoint           *)
(***************************************************************************)
\* JSON values, by type
JObject(fields) == [type |-> "object", fields |-> fields]
JNull   == [type |-> "null"]
JNumber == [type |-> "number"]
JString == [type |-> "string"]
JArray  == [type |-> "array"]

\* The text of message.content as a sequence of tokens, whitespace left out: prose
\* without braces or backticks, a ``` marker, a word written right after a marker,
\* and the text of one JSON value.
Prose      == [kind |-> "prose"]
Fence      == [kind |-> "fence"]
Word(text) == [kind |-> "word", text |-> text]
Json(v)    == [kind |-> "json", value |-> v]

Min(S) == CHOOSE x \in S : \A y \in S : x <= y
Max(S) == CHOOSE x \in S : \A y \in S : x >= y

FenceAt(text) == {i \in 1..Len(text) : text[i].kind = "fence"}

\* the tokens that hold a brace: the texts of JSON objects
BraceAt(text) ==
  {i \in 1..Len(text) : text[i].kind = "json" /\ text[i].value.type = "object"}

\* trimmed.match(/```(?:json)?\s*([\s\S]*?)```/): the first marker that has a later
\* marker opens, a word json right after it is skipped, the next marker closes
fenceMatch(trimmed) ==
  LET opens == {i \in FenceAt(trimmed) : \E j \in FenceAt(trimmed) : j > i}
  IN IF opens = {} THEN [matched |-> FALSE, group |-> <<>>]
     ELSE LET i     == Min(opens)
              start == IF trimmed[i + 1].kind = "word" /\ trimmed[i + 1].text = "json"
                         THEN i + 2
                         ELSE i + 1
              j     == Min({k \in FenceAt(trimmed) : k >= start})
          IN [matched |-> TRUE, group |-> SubSeq(trimmed, start, j - 1)]

\* trimmed.match(/\{[\s\S]*\}/): from the first brace to the last
braceMatch(trimmed) ==
  IF BraceAt(trimmed) = {} THEN [matched |-> FALSE, group |-> <<>>]
  ELSE [matched |-> TRUE,
        group   |-> SubSeq(trimmed, Min(BraceAt(trimmed)), Max(BraceAt(trimmed)))]

\* the candidate handed to JSON.parse
extractCandidate(trimmed) ==
  LET fence == fenceMatch(trimmed)
      fenced == IF FenceAt(trimmed) # {} /\ fence.matched /\ fence.group # <<>>
                  THEN fence.group
                  ELSE trimmed
      brace == braceMatch(trimmed)
  IN IF (fenced = trimmed \/ (fenced # <<>> /\ fenced[1].kind = "fence")) /\ brace.matched
       THEN brace.group
       ELSE fenced

\* JSON.parse: the text of exactly one JSON value parses, anything else throws
JSONparse(text) ==
  IF Len(text) = 1 /\ text[1].kind = "json"
    THEN [threw |-> FALSE, value |-> text[1].value]
    ELSE [threw |-> TRUE, value |-> JNull]

\* candidate.replace(/```(?:json)?/gi, "").replace(/```/g, "")
stripFences(candidate) ==
  SelectSeq(candidate,
            LAMBDA t : t.kind # "fence" /\ ~(t.kind = "word" /\ toLowerCase(t.text) = "json"))

\* the narration of the fallback object: the content itself, or a fixed sentence
RawContent == "[the upstream content as received]"

fallbackObject(trimmed) ==
  JObject(Field("command", <<"look">>)
          @@ Field("narration",
                   IF trimmed # <<>> THEN RawContent
                   ELSE "You pause for a moment, unsure of your next move."))

\* from the content to the parsed value, with the fallback when nothing parses
parseContent(trimmed) ==
  LET candidate == extractCandidate(trimmed)
      first     == JSONparse(candidate)
      second    == JSONparse(stripFences(candidate))
  IN IF ~first.threw THEN first.value
     ELSE IF FenceAt(candidate) # {} /\ ~second.threw THEN second.value
     ELSE fallbackObject(trimmed)

\* the defaults written into the parsed value, and what JSON.stringify makes of it:
\* reading a property of null throws, properties assigned to a number or a string are
\* dropped, and those assigned to an array are not serialised
applyDefaults(parsed) ==
  CASE parsed.type = "null"   -> [threw |-> TRUE, value |-> JNull]
    [] parsed.type = "object" ->
         [threw |-> FALSE, value |-> JObject(callMistralChat(parsed.fields))]
    [] OTHER                  -> [threw |-> FALSE, value |-> parsed]

\* what the upstream call can come to: the fetch rejects or the body is not JSON
\* ("throw"), a non-2xx status, or a 2xx body whose message content is missing, is not
\* a string, or is text
NoUpstream == [outcome |-> "not called"]

Message(content) == [outcome |-> "ok", content |-> [type |-> "string", text |-> content]]

GoNorth ==
  Field("command", <<"go", "north">>) @@ Field("narration", "You walk north.")

Payloads ==
  { JObject(GoNorth), JObject(EmptyObject), JObject(Field("command", <<"go", "north">>)),
    JObject(Field("narration", "You walk north.")) }

Contents ==
  { <<>>, <<Prose>>, <<Prose, Prose>> }
  \cup { <<Json(v)>> : v \in Payloads \cup {JNull, JNumber, JString, JArray} }
  \cup { <<Fence, Word("json"), Json(v), Fence>> : v \in Payloads \cup {JNull} }
  \cup { <<Fence, Json(v), Fence>> : v \in Payloads }
  \cup { <<Prose, Json(JObject(GoNorth)), Prose>>,
         <<Prose, Fence, Word("json"), Json(JObject(GoNorth)), Fence, Prose>>,
         <<Fence, Word("json"), Json(JObject(GoNorth))>>,
         <<Fence, Word("JSON"), Json(JObject(GoNorth)), Fence>>,
         <<Fence, Word("json"), Prose, Fence>>,
         <<Fence, Fence>>,
         <<Json(JObject(GoNorth)), Json(JObject(GoNorth))>> }

Upstreams ==
  { [outcome |-> "throw"], [outcome |-> "status"],
    [outcome |-> "ok", content |-> [type |-> "undefined"]],
    [outcome |-> "ok", content |-> [type |-> "array"]] }
  \cup { Message(c) : c \in Contents }

\* callMistralChat from the upstream call to its return value
callUpstream(upstream) ==
  CASE upstream.outcome # "ok"            -> [threw |-> TRUE, value |-> JNull]
    [] upstream.content.type = "array"    -> [threw |-> TRUE, value |-> JNull]
    [] upstream.content.type = "undefined" -> applyDefaults(parseContent(<<>>))
    [] OTHER                              -> applyDefaults(parseContent(upstream.content.text))

\* the state as the client puts it in a request body
getSerializableState(gs) ==
  [ currentRoomId  |-> gs.currentRoomId,
    inventory      |-> gs.inventory,
    flags          |-> gs.flags,
    puzzleProgress |-> gs.puzzleProgress,
    gameComplete   |-> gs.gameComplete,
    language       |-> gs.language ]

\* the request bodies: none, without input, with an input that is not a string or is
\* empty, and with an input alone or next to a language or a state
InputText == [type |-> "string", value |-> "go north"]

Bodies ==
  { EmptyObject,
    Field("input", [type |-> "number"]),
    Field("input", [type |-> "string", value |-> ""]),
    Field("language", "tr"),
    Field("input", InputText),
    Field("input", InputText) @@ Field("language", "tr"),
    Field("input", InputText) @@ Field("state", getSerializableState(InitialGameState)) }

Paths == {"/interpret", "/api/interpret"}

Requests ==
  { [path |-> p] : p \in Paths }
  \cup { [path |-> p, body |-> b] : p \in Paths, b \in Bodies }

\* !input || typeof input !== "string"
inputRejected(body) ==
  ~Has(body, "input") \/ body.input.type # "string" \/ body.input.value = ""

\* language || state?.language || "en"
selectedLanguage(body) ==
  IF Has(body, "language") THEN body.language
  ELSE IF Has(body, "state") THEN body.state.language
  ELSE "en"

ErrorBody(message) == JObject(Field("error", message))

NoResponse == [status |-> 0, body |-> JNull, upstream |-> NoUpstream]

\* the handler up to its await: the answers it gives without calling upstream
earlyResponse(req, key) ==
  LET body == IF Has(req, "body") THEN req.body ELSE EmptyObject
  IN IF inputRejected(body)
       THEN [done |-> TRUE,
             response |-> [status |-> 400,
                           body |-> ErrorBody("Missing 'input' string in body."),
                           upstream |-> NoUpstream]]
     ELSE IF ~key
       THEN [done |-> TRUE,
             response |-> [status |-> 500,
                           body |-> ErrorBody("MISTRAL_API_KEY not configured on server."),
                           upstream |-> NoUpstream]]
     ELSE [done |-> FALSE, response |-> NoResponse]

\* what the handler puts into the upstream prompt: the input, the language and the room
upstreamRequest(req) ==
  [ input    |-> req.body.input.value,
    language |-> selectedLanguage(req.body),
    room     |-> IF Has(req.body, "state") THEN req.body.state.currentRoomId
                 ELSE "unknown" ]

\* the handler after its await: res.json(result), or the catch
respond(upstream) ==
  LET result == callUpstream(upstream)
  IN IF result.threw
       THEN [status |-> 500, body |-> ErrorBody("Internal server error"),
             upstream |-> upstream]
       ELSE [status |-> 200, body |-> result.value, upstream |-> upstream]

\* the handler of both POST routes as one call; upstream is what the upstream call
\* comes to if the handler makes it
interpretHandler(req, key, upstream) ==
  LET early == earlyResponse(req, key)
  IN IF early.done THEN early.response ELSE respond(upstream)

\* a continuation that answers with an error while another invocation is suspended
finish_Busy(scope, slot, upstream) ==
  IF \E other \in Slots \ {slot} : scope.pending[other].busy
    THEN [status |-> 500, body |-> ErrorBody("Internal server error"),
          upstream |-> upstream]
    ELSE respond(upstream)

\* the continuation of the invocation suspended in a slot, run in the module scope
finish(scope, slot, upstream) == respond(upstream)

\* the server starts with MISTRAL_API_KEY set or not
InitServer ==
  /\ gameState = InitialGameState
  /\ rooms = InitialRooms
  /\ inFlight = [first |-> 0, followUp |-> 0]
  /\ selectorHidden = FALSE
  /\ lastCall = NoCall
  /\ script = 0
  /\ turn = NoTurn
  /\ \E key \in BOOLEAN : server = ServerWith(key)

\* a POST to either route arrives: the handler answers at once, or calls upstream
\* and suspends
Post ==
  /\ \E req \in Requests :
       LET early == earlyResponse(req, server.key)
       IN IF early.done
            THEN /\ lastCall' = [fn |-> "interpretHandler", req |-> req,
                                 response |-> early.response]
                 /\ UNCHANGED server
            ELSE /\ \E slot \in Slots :
                      /\ ~server.pending[slot].busy
                      /\ server' = [server EXCEPT
                                      !.pending[slot] =
                                        [busy |-> TRUE, req |-> req,
                                         asked |-> upstreamRequest(req)]]
                 /\ UNCHANGED lastCall
  /\ UNCHANGED <<gameState, rooms, inFlight, selectorHidden, script, turn>>

\* an upstream call ends and its handler answers
Reply ==
  /\ \E slot \in Slots, upstream \in Upstreams :
       /\ server.pending[slot].busy
       /\ lastCall' = [fn |-> "interpretHandler", req |-> server.pending[slot].req,
                       response |-> finish(server, slot, upstream)]
       /\ server' = [server EXCEPT !.pending[slot] = Idle]
  /\ UNCHANGED <<gameState, rooms, inFlight, selectorHidden, script, turn>>

(***************************************************************************)
(* Interpretation client: handleUserInput                                  *)
(***************************************************************************)
\* { ...gameState.puzzleProgress, ...data.puzzleProgress }
MergeProgress(progress, echoed) ==
  [k \in (DOMAIN progress) \cup (DOMAIN echoed) |->
     IF k \in DOMAIN echoed THEN echoed[k] ELSE progress[k]]

\* applyResponse that stores a password whenever the response carries one
applyResponse_PasswordAnytime(gs, data) ==
  LET gs1 == IF Has(data, "puzzleProgress")
               THEN [gs EXCEPT !.puzzleProgress = MergeProgress(@, data.puzzleProgress)]
               ELSE gs
      gs2 == IF Has(data, "gameComplete") /\ data.gameComplete /\ ~gs1.gameComplete
               THEN [gs1 EXCEPT !.gameComplete = TRUE]
               ELSE gs1
  IN IF Has(data, "password") /\ data.password # ""
       THEN [gs2 EXCEPT !.password = data.password]
       ELSE gs2

\* applyResponse that also takes the language the response carries
applyResponse_CopiesLanguage(gs, data) ==
  LET gs1 == IF Has(data, "puzzleProgress")
               THEN [gs EXCEPT !.puzzleProgress = MergeProgress(@, data.puzzleProgress)]
               ELSE gs
      gs2 == IF Has(data, "gameComplete") /\ data.gameComplete /\ ~gs1.gameComplete
               THEN [gs1 EXCEPT !.gameComplete = TRUE,
                                !.password = IF Has(data, "password") /\ data.password # ""
                                               THEN data.password
                                               ELSE @]
               ELSE gs1
  IN [gs2 EXCEPT !.language = data.language]

\* applyResponse that copies the echoed gameComplete over the stored one
applyResponse_CopiesComplete(gs, data) ==
  LET gs1 == IF Has(data, "puzzleProgress")
               THEN [gs EXCEPT !.puzzleProgress = MergeProgress(@, data.puzzleProgress)]
               ELSE gs
  IN IF Has(data, "gameComplete")
       THEN [gs1 EXCEPT !.gameComplete = data.gameComplete,
                        !.password = IF Has(data, "password") /\ data.password # ""
                                       THEN data.password
                                       ELSE @]
       ELSE gs1

\* the state updates handleUserInput takes from the response before it runs the command
\* applyResponse that still takes a password after the game was reported complete
applyResponse_PasswordLate(gs, data) ==
  LET gs1 == IF Has(data, "puzzleProgress")
               THEN [gs EXCEPT !.puzzleProgress = MergeProgress(@, data.puzzleProgress)]
               ELSE gs
      gs2 == IF Has(data, "gameComplete") /\ data.gameComplete
               THEN [gs1 EXCEPT !.gameComplete = TRUE,
                                !.password = IF Has(data, "password") /\ data.password # ""
                                               THEN data.password
                                               ELSE @]
               ELSE gs1
  IN gs2

applyResponse(gs, data) ==
  LET gs1 == IF Has(data, "puzzleProgress")
               THEN [gs EXCEPT !.puzzleProgress = MergeProgress(@, data.puzzleProgress)]
               ELSE gs
      gs2 == IF Has(data, "gameComplete") /\ data.gameComplete /\ ~gs1.gameComplete
               THEN [gs1 EXCEPT !.gameComplete = TRUE,
                                !.password = IF Has(data, "password") /\ data.password # ""
                                               THEN data.password
                                               ELSE @]
               ELSE gs1
  IN gs2

InFlightTotal == inFlight.first + inFlight.followUp

\* what the player types; the client sends it on without reading it
TypedInputs == {"light the lantern"}

FetchFailures == {"status", "throw"}

\* the body of a POST /interpret
requestBody(gs, input) ==
  [input |-> input, state |-> getSerializableState(gs), language |-> gs.language]

\* failedMessages[gameState.language] || failedMessages.en
failedInput(gs, engineCommand) ==
  IF gs.language = "tr"
    THEN Join(engineCommand) \o " komutunu denedim ama ise yaramadi."
    ELSE "I tried to " \o Join(engineCommand) \o " but it didn't work."

\* a follow-up that is also sent after a command that succeeded
followUpDue_OnSuccess(commandSucceeded, engineCommand) == engineCommand # <<>>

\* !commandSucceeded && engineCommand
followUpDue(commandSucceeded, engineCommand) ==
  ~commandSucceeded /\ engineCommand # <<>>

\* a 2xx first response: its fields are applied, its command runs; followUp tells
\* whether the failure explanation is asked for
firstResponse(W, data) ==
  LET engineCommand == data.command
      r == handleEngineCommand(World(applyResponse(W.gameState, data), W.rooms),
                               engineCommand)
  IN [ W                |-> r.W,
       commandSucceeded |-> engineCommand = <<>> \/ r.ok,
       followUp         |-> followUpDue(engineCommand = <<>> \/ r.ok, engineCommand),
       failedInput      |-> failedInput(r.W.gameState, engineCommand) ]

\* what handleUserInput does with a 2xx first response, in the order of its statements:
\* the body is read, a non-empty narration is appended to the log, and then a
\* non-empty command is handed to handleEngineCommand
firstResponseEvents(data) ==
  <<"response received">>
    \o (IF data.narration # "" THEN <<"narration rendered">> ELSE <<>>)
    \o (IF data.command # <<>> THEN <<"command executed">> ELSE <<>>)

\* a 2xx follow-up response: only its narration is read
followUpResponse(W, failedData) == W

\* the log lines handleUserInput itself appends when a fetch fails: a non-2xx first
\* response and everything thrown write an "important" line, a non-2xx follow-up
\* writes nothing
failureLog(request, failure) ==
  IF request = "followUp" /\ failure = "status" THEN <<>> ELSE <<"important">>

\* a non-empty input is typed and sent: the invocation suspends at the first fetch
Submit ==
  /\ InFlightTotal < MaxInFlight
  /\ inFlight' = [inFlight EXCEPT !.first = @ + 1]
  /\ UNCHANGED <<gameState, rooms, selectorHidden, lastCall, script, turn, server>>

\* the first fetch answers 2xx: the response is applied, the command runs, and a
\* failed command sends the follow-up request
ReceiveResponse ==
  /\ inFlight.first > 0
  /\ \E parsed \in UpstreamReplies(gameState) :
       LET r == firstResponse(World(gameState, rooms), callMistralChat(parsed))
       IN /\ gameState' = r.W.gameState
          /\ rooms' = r.W.rooms
          /\ inFlight' = IF r.followUp
                           THEN [first |-> inFlight.first - 1,
                                 followUp |-> inFlight.followUp + 1]
                           ELSE [inFlight EXCEPT !.first = @ - 1]
  /\ UNCHANGED <<selectorHidden, lastCall, script, turn, server>>

\* the first fetch answers non-2xx or throws
ReceiveError ==
  /\ inFlight.first > 0
  /\ inFlight' = [inFlight EXCEPT !.first = @ - 1]
  /\ UNCHANGED <<gameState, rooms, selectorHidden, lastCall, script, turn, server>>

\* the follow-up fetch ends, with a response or without
ReceiveFollowUp ==
  /\ inFlight.followUp > 0
  /\ \/ \E parsed \in FollowUpReplies(gameState) :
          LET W == followUpResponse(World(gameState, rooms), callMistralChat(parsed))
          IN gameState' = W.gameState /\ rooms' = W.rooms
     \/ UNCHANGED <<gameState, rooms>>
  /\ inFlight' = [inFlight EXCEPT !.followUp = @ - 1]
  /\ UNCHANGED <<selectorHidden, lastCall, script, turn, server>>

\* the same steps of handleUserInput for a player who waits for the end of one input
\* before typing the next, with the trace of the invocation kept: whether the selector
\* was hidden at entry, the language of each request sent, the classes of the log
\* lines handleUserInput appended, what the executor returned, whether gameState is
\* still what it was at entry, and how a fetch failed
Enter ==
  /\ InFlightTotal = 0
  /\ \E input \in TypedInputs :
       turn' = [ selectorHidden |-> selectorHidden,
                 requests       |-> <<requestBody(gameState, input).language>>,
                 log            |-> <<"command">>,
                 executor       |-> "not run",
                 stateKept      |-> TRUE,
                 failure        |-> "none",
                 events         |-> <<"request sent">> ]
  /\ inFlight' = [inFlight EXCEPT !.first = @ + 1]
  /\ UNCHANGED <<gameState, rooms, selectorHidden, lastCall, script, server>>

FirstAnswer ==
  /\ inFlight.first > 0
  /\ \E parsed \in UpstreamReplies(gameState) :
       LET r == firstResponse(World(gameState, rooms), callMistralChat(parsed))
       IN /\ gameState' = r.W.gameState
          /\ rooms' = r.W.rooms
          /\ inFlight' = IF r.followUp
                           THEN [first |-> inFlight.first - 1,
                                 followUp |-> inFlight.followUp + 1]
                           ELSE [inFlight EXCEPT !.first = @ - 1]
          /\ turn' = [turn EXCEPT
                        !.log = Append(@, "response"),
                        !.events = @ \o firstResponseEvents(callMistralChat(parsed)),
                        !.executor = IF r.commandSucceeded THEN "ok" ELSE "failed",
                        !.stateKept = (r.W.gameState = gameState),
                        !.requests = IF r.followUp
                                       THEN Append(@, requestBody(r.W.gameState,
                                                                  r.failedInput).language)
                                       ELSE @]
  /\ UNCHANGED <<selectorHidden, lastCall, script, server>>

FirstFailure ==
  /\ inFlight.first > 0
  /\ \E failure \in FetchFailures :
       turn' = [turn EXCEPT !.failure = failure,
                            !.log = @ \o failureLog("first", failure),
                            !.events = IF failure = "status"
                                         THEN Append(@, "response received")
                                         ELSE @]
  /\ inFlight' = [inFlight EXCEPT !.first = @ - 1]
  /\ UNCHANGED <<gameState, rooms, selectorHidden, lastCall, script, server>>

FollowUpAnswer ==
  /\ inFlight.followUp > 0
  /\ \E parsed \in FollowUpReplies(gameState) :
       LET W == followUpResponse(World(gameState, rooms), callMistralChat(parsed))
       IN gameState' = W.gameState /\ rooms' = W.rooms
  /\ turn' = [turn EXCEPT !.log = Append(@, "response")]
  /\ inFlight' = [inFlight EXCEPT !.followUp = @ - 1]
  /\ UNCHANGED <<selectorHidden, lastCall, script, server>>

FollowUpFailure ==
  /\ inFlight.followUp > 0
  /\ \E failure \in FetchFailures :
       turn' = [turn EXCEPT !.failure = failure,
                            !.log = @ \o failureLog("followUp", failure)]
  /\ inFlight' = [inFlight EXCEPT !.followUp = @ - 1]
  /\ UNCHANGED <<gameState, rooms, selectorHidden, lastCall, script, server>>

selectLanguage(W, lang) ==
  setLocation([W EXCEPT !.gameState.language = lang], W.gameState.currentRoomId)

SelectLanguage ==
  /\ ~selectorHidden
  /\ \E lang \in Languages :
       LET W == selectLanguage(World(gameState, rooms), lang)
       IN /\ gameState' = W.gameState
          /\ rooms' = W.rooms
          /\ lastCall' = [fn |-> "selectLanguage", lang |-> lang]
  /\ selectorHidden' = TRUE
  /\ UNCHANGED <<inFlight, script, turn, server>>

\* the executor called on its own, its return value kept
Execute ==
  \E cmd \in EngineCommands :
    LET r == handleEngineCommand(World(gameState, rooms), cmd)
    IN /\ gameState' = r.W.gameState
       /\ rooms' = r.W.rooms
       /\ lastCall' = [fn |-> "handleEngineCommand", command |-> cmd, result |-> r.ok]
       /\ script' = IF script < Len(EndToEnd) /\ cmd = EndToEnd[script + 1]
                      THEN script + 1
                      ELSE Len(EndToEnd) + 1
       /\ UNCHANGED <<inFlight, selectorHidden, turn, server>>

(***************************************************************************)
(* Specifications                                                          *)
(***************************************************************************)
\* a session: inputs go through handleUserInput and the service
Next == SelectLanguage \/ Submit \/ ReceiveResponse \/ ReceiveError \/ ReceiveFollowUp

Spec == Init /\ [][Next]_vars

\* the command executor driven directly
NextEngine == SelectLanguage \/ Execute

SpecEngine == Init /\ [][NextEngine]_vars

\* a session of a player who enters one input at a time
NextTurn ==
  SelectLanguage \/ Enter \/ FirstAnswer \/ FirstFailure \/ FollowUpAnswer
    \/ FollowUpFailure

SpecTurn == Init /\ [][NextTurn]_vars

\* the interpretation service answering requests
NextServer == Post \/ Reply

SpecServer == InitServer /\ [][NextServer]_vars

(***************************************************************************)
(* Properties                                                              *)
(***************************************************************************)
\* the places an item is in: positions of the inventory and of the rooms' item lists
Positions(seq, item) == {i \in 1..Len(seq) : seq[i] = item}

Places(item) ==
  {<<"inventory", i>> : i \in Positions(gameState.inventory, item)}
  \cup UNION {{<<r, i>> : i \in Positions(rooms[r], item)} : r \in RoomIds}

AllSix(progress) == \A k \in ProgressKeys : progress[k]

\* the step is a direct run of the executor on lastCall'.command
EngineStep == lastCall'.fn = "handleEngineCommand"

GameUnchanged == gameState' = gameState /\ rooms' = rooms

IsGo(cmd) == cmd # <<>> /\ Verb(cmd) = "go"

IsMove(cmd) == cmd # <<>> /\ Verb(cmd) \in {"go"} \cup DirectionVerbs

\* the direction a movement command names; "in" names "inside"
Direction(cmd) ==
  LET d == IF Verb(cmd) = "go" THEN Arg(cmd) ELSE Verb(cmd)
  IN IF d = "in" THEN "inside" ELSE d

HasExit(roomId, dir) == dir \in DOMAIN exits[roomId]

IsUse(cmd, item) == cmd # <<>> /\ Verb(cmd) = "use" /\ normalizeItemName(Arg(cmd)) = item

\* C1: each item is in exactly one place, a room's item list or the inventory,
\* and there exactly once.
C1_ItemInExactlyOnePlace == \A item \in ItemIds : Cardinality(Places(item)) = 1

C1_Witness ==
  /\ gameState.inventory = <<"smallKey", "lantern">>
  /\ \A r \in RoomIds : rooms[r] = <<>>

\* C2: a puzzleProgress flag that is true stays true in every later state.
C2_ProgressMonotone ==
  [][\A k \in ProgressKeys :
       gameState.puzzleProgress[k] => gameState'.puzzleProgress[k]]_vars

\* C3: gameComplete becomes true only in a step that leaves all six puzzleProgress
\* flags true.
C3_CompleteOnlyWithAllProgress ==
  [][(~gameState.gameComplete /\ gameState'.gameComplete)
       => AllSix(gameState'.puzzleProgress)]_vars

\* C4: after an engine command that leaves all six puzzleProgress flags true,
\* gameComplete is true.
C4_CompletionRecomputed ==
  (lastCall.fn = "handleEngineCommand" /\ AllSix(gameState.puzzleProgress))
    => gameState.gameComplete

\* C5: gameComplete never goes from true to false.
C5_CompleteNeverReverts ==
  [][gameState.gameComplete => gameState'.gameComplete]_vars

C5_Witness ==
  /\ gameState.gameComplete
  /\ gameState.password = Null
  /\ gameState.puzzleProgress = NoProgress
  /\ gameState.currentRoomId = "lighthouseTop"

\* C6: the end-to-end walkthrough from the initial state succeeds at every step and
\* ends at the top with both items, both flags, all six puzzleProgress flags,
\* gameComplete true and the password set.
C6_EndToEnd ==
  /\ (script \in 1..Len(EndToEnd) /\ lastCall.fn = "handleEngineCommand")
       => lastCall.result
  /\ script = Len(EndToEnd) =>
       /\ gameState.currentRoomId = "lighthouseTop"
       /\ gameState.inventory = <<"lantern", "smallKey">>
       /\ gameState.flags.lanternLit
       /\ gameState.flags.lighthouseDoorUnlocked
       /\ AllSix(gameState.puzzleProgress)
       /\ gameState.gameComplete
       /\ gameState.password # Null

\* C7: a go command moves the player only where the current room's exit table says,
\* and a go whose direction the table lacks fails and changes nothing.
C7_GoFollowsExitTable ==
  [][(EngineStep /\ IsGo(lastCall'.command)) =>
       LET dir  == Direction(lastCall'.command)
           here == gameState.currentRoomId
       IN /\ (gameState'.currentRoomId # here) =>
               (HasExit(here, dir) /\ gameState'.currentRoomId = exits[here][dir])
          /\ (~HasExit(here, dir)) => (~lastCall'.result /\ GameUnchanged)]_vars

LeadsInside(roomId, cmd) ==
  /\ HasExit(roomId, Direction(cmd))
  /\ exits[roomId][Direction(cmd)] = "lighthouseInterior"

\* C8: a movement into lighthouseInterior fails and changes nothing while the door
\* flag is false, succeeds when it is true, and the door flag never goes back to false.
C8_DoorGatesInterior ==
  [][/\ gameState.flags.lighthouseDoorUnlocked => gameState'.flags.lighthouseDoorUnlocked
     /\ (EngineStep /\ IsMove(lastCall'.command)
           /\ LeadsInside(gameState.currentRoomId, lastCall'.command)) =>
          IF gameState.flags.lighthouseDoorUnlocked
            THEN lastCall'.result /\ gameState'.currentRoomId = "lighthouseInterior"
            ELSE ~lastCall'.result /\ GameUnchanged]_vars

C8_Witness ==
  /\ lastCall = [fn |-> "handleEngineCommand", command |-> <<"go", "inside">>,
                 result |-> TRUE]
  /\ gameState.currentRoomId = "lighthouseInterior"

\* C9: use lantern at the top with the lantern unlit (and the beacon unlit) fails and
\* changes nothing; with the lantern lit it succeeds and litBeacon is true afterwards.
C9_BeaconNeedsLitLantern ==
  [][(EngineStep /\ IsUse(lastCall'.command, "lantern")
        /\ gameState.currentRoomId = "lighthouseTop") =>
       /\ (~gameState.flags.lanternLit /\ ~gameState.puzzleProgress.litBeacon) =>
            (~lastCall'.result /\ GameUnchanged)
       /\ gameState.flags.lanternLit =>
            (lastCall'.result /\ gameState'.puzzleProgress.litBeacon)]_vars

C9_Witness ==
  /\ lastCall = [fn |-> "handleEngineCommand", command |-> <<"use", "lantern">>,
                 result |-> FALSE]
  /\ gameState.currentRoomId = "lighthouseTop"
  /\ Includes(gameState.inventory, "lantern")
  /\ ~gameState.puzzleProgress.litBeacon

\* C10: use key at the entrance with the key held always succeeds and leaves the door
\* flag and unlockedDoor true; once the door is unlocked it changes nothing.
C10_UseKeyIdempotent ==
  [][(EngineStep /\ IsUse(lastCall'.command, "smallKey")
        /\ gameState.currentRoomId = "lighthouseExterior"
        /\ Includes(gameState.inventory, "smallKey")) =>
       /\ lastCall'.result
       /\ gameState'.flags.lighthouseDoorUnlocked
       /\ gameState'.puzzleProgress.unlockedDoor
       /\ gameState.flags.lighthouseDoorUnlocked => GameUnchanged]_vars

C10_Witness ==
  /\ lastCall = [fn |-> "handleEngineCommand", command |-> <<"use", "KEY">>,
                 result |-> TRUE]
  /\ gameState.currentRoomId = "lighthouseExterior"
  /\ gameState.flags.lighthouseDoorUnlocked
  /\ gameState.puzzleProgress.unlockedDoor

\* C11: at most one handleUserInput round trip is in flight at any time.
C11_OneInputAtATime == InFlightTotal <= 1

\* a step of the session in which a fetch of the input being handled fails
FailureStep == turn' # turn /\ turn'.failure # "none"

\* the step appends a log line of the "important" class
LogsImportant ==
  /\ Len(turn'.log) = Len(turn.log) + 1
  /\ turn'.log[Len(turn'.log)] = "important"

\* C12: when a fetch fails (non-2xx or thrown, first request or follow-up), the handling
\* of the input ends with a non-fatal log message and gameState is what it was before
\* the input was submitted.
C12_FailureKeepsState ==
  [][ (turn.selectorHidden /\ FailureStep)
        => (LogsImportant /\ gameState' = gameState /\ turn'.stateKept) ]_vars

\* the step in which the first response of the input being handled is processed
AnswerStep == turn.executor = "not run" /\ turn'.executor # "not run"

\* the step in which the follow-up fetch of the input being handled ends
FollowUpEnds == inFlight'.followUp < inFlight.followUp

\* C13: a command the executor rejects is followed by exactly one follow-up request and
\* a command that succeeds by none, an input never sends more than two requests, and
\* the end of the follow-up changes nothing in gameState and sends nothing.
C13_OneFollowUp ==
  [][ /\ AnswerStep =>
           /\ turn'.executor = "failed" =>
                Len(turn'.requests) = 2 /\ inFlight'.followUp = inFlight.followUp + 1
           /\ turn'.executor = "ok" =>
                Len(turn'.requests) = 1 /\ inFlight'.followUp = inFlight.followUp
      /\ FollowUpEnds =>
           /\ gameState' = gameState
           /\ rooms' = rooms
           /\ turn'.requests = turn.requests
           /\ inFlight'.first = inFlight.first
      /\ Len(turn'.requests) <= 2 ]_vars

\* an input whose command failed and whose follow-up was answered
C13_Witness ==
  /\ turn.executor = "failed"
  /\ InFlightTotal = 0
  /\ turn.failure = "none"
  /\ turn.requests = <<"tr", "tr">>
  /\ turn.log = <<"command", "response", "response">>

\* a step that sends a request to /interpret
Sends == inFlight'.first > inFlight.first \/ inFlight'.followUp > inFlight.followUp

\* C14: once a language has been selected, no step of handling an input changes
\* gameState.language, and every request sent afterwards, the follow-up included,
\* carries the selected language.
C14_LanguageFixed ==
  [][ lastCall.fn = "selectLanguage" =>
        /\ gameState'.language = lastCall.lang
        /\ Sends => turn'.requests[Len(turn'.requests)] = lastCall.lang ]_vars

\* Turkish was selected, the service answered with its default language and a
\* command that failed, and the follow-up has been sent
C14_Witness ==
  /\ lastCall = [fn |-> "selectLanguage", lang |-> "tr"]
  /\ gameState.language = "tr"
  /\ inFlight.followUp = 1
  /\ turn.requests = <<"tr", "tr">>

\* C15: a non-null password implies gameComplete, and password changes only in a step
\* in which gameComplete goes from false to true.
C15_PasswordOnlyOnCompletion ==
  [][ /\ gameState'.password # Null => gameState'.gameComplete
      /\ gameState'.password # gameState.password =>
           ~gameState.gameComplete /\ gameState'.gameComplete ]_vars

\* the password was stored, with two inputs in flight whose responses may carry
\* another one
C15_Witness ==
  /\ gameState.gameComplete
  /\ gameState.password = "TUGRUL_AI"
  /\ inFlight.first = 2

\* the body of the request of the last call to the endpoint
CallBody == IF Has(lastCall.req, "body") THEN lastCall.req.body ELSE EmptyObject

\* the request has no usable input: none, not a string, or the empty string
InputMissing ==
  ~Has(CallBody, "input") \/ CallBody.input.type # "string" \/ CallBody.input.value = ""

OtherPath(path) == IF path = "/interpret" THEN "/api/interpret" ELSE "/interpret"

\* C16: the endpoint answers 400 for a missing or non-string input, before anything
\* else and without calling upstream; 500 without calling upstream when the credential
\* is absent; 500 when the upstream call throws or returns non-2xx; 2xx in every other
\* case; and the same on both paths.
C16_StatusCodes ==
  lastCall.fn = "interpretHandler" =>
    LET response == lastCall.response
    IN /\ response.status =
            IF InputMissing THEN 400
            ELSE IF ~server.key THEN 500
            ELSE IF response.upstream.outcome \in {"throw", "status"} THEN 500
            ELSE 200
       /\ (InputMissing \/ ~server.key) => response.upstream = NoUpstream
       /\ response = interpretHandler([lastCall.req EXCEPT !.path = OtherPath(@)],
                                      server.key, response.upstream)

\* the fields of the JSON object a content holds, when it holds exactly one JSON value
\* and that is an object
Payload(text) ==
  LET at == {i \in 1..Len(text) : text[i].kind = "json"}
  IN IF Cardinality(at) = 1 /\ text[Min(at)].value.type = "object"
       THEN text[Min(at)].value.fields
       ELSE EmptyObject

AcceptedNarrations ==
  { "You take a moment to look around.",
    "You pause for a moment, unsure of your next move.",
    RawContent }

\* C17: whatever text the upstream reply carries, the server answers 2xx with an object;
\* its command is the one of the JSON object in the text, fenced or not, and look when
\* there is none; its narration is the one of that object, and a stock sentence or the
\* text itself when there is none.
C17_MalformedRecovered ==
  (/\ lastCall.fn = "interpretHandler"
   /\ lastCall.response.upstream.outcome = "ok"
   /\ lastCall.response.upstream.content.type = "string") =>
    LET payload == Payload(lastCall.response.upstream.content.text)
        body    == lastCall.response.body
    IN /\ lastCall.response.status = 200
       /\ body.type = "object"
       /\ Has(body.fields, "command")
       /\ body.fields.command =
            IF Has(payload, "command") THEN payload.command ELSE <<"look">>
       /\ Has(body.fields, "narration")
       /\ IF Has(payload, "narration")
            THEN body.fields.narration = payload.narration
            ELSE body.fields.narration \in AcceptedNarrations

\* the invocation suspended in a slot is answered in this step
Answered(slot) == server.pending[slot].busy /\ ~server'.pending[slot].busy

\* a request is accepted into a slot in this step
Accepted(slot) == ~server.pending[slot].busy /\ server'.pending[slot].busy

OthersKept(slot) ==
  \A other \in Slots \ {slot} : server'.pending[other] = server.pending[other]

\* C18: the backend keeps no per-session state. The answer to a request is the one the
\* handler gives to that request and its upstream reply alone, whatever other requests
\* are suspended or were answered before; what is asked of upstream comes from the
\* request alone; and handling a request touches no other suspended request.
C18_NoSessionState ==
  [][ /\ server'.key = server.key
      /\ \A slot \in Slots :
           /\ Answered(slot) =>
                /\ lastCall'.req = server.pending[slot].req
                /\ lastCall'.response =
                     interpretHandler(server.pending[slot].req, server.key,
                                      lastCall'.response.upstream)
                /\ OthersKept(slot)
           /\ Accepted(slot) =>
                /\ server'.pending[slot].asked = upstreamRequest(server'.pending[slot].req)
                /\ lastCall' = lastCall
                /\ OthersKept(slot) ]_vars

\* a Turkish request was answered 2xx while a request without language waits
C18_Witness ==
  /\ lastCall.fn = "interpretHandler"
  /\ lastCall.response.status = 200
  /\ Has(lastCall.req.body, "language")
  /\ \E slot \in Slots :
       /\ server.pending[slot].busy
       /\ server.pending[slot].asked.language = "en"

IsTake(cmd) == cmd # <<>> /\ Verb(cmd) \in {"take", "get"}

\* the discovery flag of an item
Found(item) == IF item = "lantern" THEN "foundLantern" ELSE "foundKey"

\* C19: take or get succeeds exactly when its argument names an item that lies in the
\* current room; then the item leaves the room, is appended to the inventory and its
\* discovery flag is true; otherwise the command fails and nothing changes.
C19_TakeMovesItem ==
  [][(EngineStep /\ IsTake(lastCall'.command)) =>
       LET item == normalizeItemName(Arg(lastCall'.command))
           here == gameState.currentRoomId
       IN IF item # Null /\ Includes(rooms[here], item)
            THEN /\ lastCall'.result
                 /\ ~Includes(rooms'[here], item)
                 /\ gameState'.inventory = Append(gameState.inventory, item)
                 /\ gameState'.puzzleProgress[Found(item)]
            ELSE ~lastCall'.result /\ GameUnchanged]_vars

\* the key was picked up at the entrance with get and a two-word name
C19_Witness ==
  /\ lastCall = [fn |-> "handleEngineCommand", command |-> <<"get", "small", "key">>,
                 result |-> TRUE]
  /\ gameState.currentRoomId = "lighthouseExterior"
  /\ Includes(gameState.inventory, "smallKey")
  /\ rooms["lighthouseExterior"] = <<>>
  /\ gameState.puzzleProgress.foundKey

IsUseCommand(cmd) == cmd # <<>> /\ Verb(cmd) = "use"

\* the unlit lantern at the top, with the beacon still dark
UnlitAtTop(item) ==
  /\ item = "lantern"
  /\ gameState.currentRoomId = "lighthouseTop"
  /\ ~gameState.flags.lanternLit
  /\ ~gameState.puzzleProgress.litBeacon

\* C20: use succeeds exactly when the item it names is in the inventory, in every room
\* and flag state; otherwise it fails and changes nothing.
C20_UseIffHeld ==
  [][(EngineStep /\ IsUseCommand(lastCall'.command)) =>
       LET item == normalizeItemName(Arg(lastCall'.command))
       IN IF item # Null /\ Includes(gameState.inventory, item)
            THEN lastCall'.result
            ELSE ~lastCall'.result /\ GameUnchanged]_vars

\* C20, amended: use fails and changes nothing when the item it names is not in the
\* inventory, and also for the unlit lantern at the top while the beacon is dark; in
\* every other room and flag state use of a held item succeeds.
C20_UseIffHeldAndUsable ==
  [][(EngineStep /\ IsUseCommand(lastCall'.command)) =>
       LET item == normalizeItemName(Arg(lastCall'.command))
       IN IF item # Null /\ Includes(gameState.inventory, item) /\ ~UnlitAtTop(item)
            THEN lastCall'.result
            ELSE ~lastCall'.result /\ GameUnchanged]_vars

\* the key was used at the top, where it opens nothing, and the use succeeded
C20_Witness ==
  /\ lastCall = [fn |-> "handleEngineCommand", command |-> <<"use", "anahtar">>,
                 result |-> TRUE]
  /\ gameState.currentRoomId = "lighthouseTop"
  /\ Includes(gameState.inventory, "smallKey")

\* C21: use lantern away from the top with the lantern held succeeds and leaves
\* lanternLit and litLantern true; with the lantern already lit it changes nothing;
\* it never changes litBeacon.
C21_LanternLightsOnce ==
  [][(EngineStep /\ IsUse(lastCall'.command, "lantern")
        /\ gameState.currentRoomId # "lighthouseTop"
        /\ Includes(gameState.inventory, "lantern")) =>
       /\ lastCall'.result
       /\ gameState'.flags.lanternLit
       /\ gameState'.puzzleProgress.litLantern
       /\ gameState.flags.lanternLit => GameUnchanged
       /\ gameState'.puzzleProgress.litBeacon = gameState.puzzleProgress.litBeacon]_vars

\* the lantern was used a second time on the beach, under its Turkish name
C21_Witness ==
  /\ lastCall = [fn |-> "handleEngineCommand", command |-> <<"use", "fener">>,
                 result |-> TRUE]
  /\ gameState.currentRoomId = "beach"
  /\ gameState.flags.lanternLit
  /\ gameState.puzzleProgress.litLantern
  /\ ~gameState.puzzleProgress.litBeacon

\* C22: use key away from the entrance with the key held succeeds and changes nothing.
C22_KeyElsewhereNoEffect ==
  [][(EngineStep /\ IsUse(lastCall'.command, "smallKey")
        /\ gameState.currentRoomId # "lighthouseExterior"
        /\ Includes(gameState.inventory, "smallKey")) =>
       (lastCall'.result /\ GameUnchanged)]_vars

\* the key was used on the beach before the door was ever unlocked
C22_Witness ==
  /\ lastCall = [fn |-> "handleEngineCommand", command |-> <<"use", "key">>,
                 result |-> TRUE]
  /\ gameState.currentRoomId = "beach"
  /\ Includes(gameState.inventory, "smallKey")
  /\ ~gameState.flags.lighthouseDoorUnlocked
  /\ ~gameState.puzzleProgress.unlockedDoor

\* C23: a successful movement changes only currentRoomId, the visited flag of the room
\* entered and reachedTop, which becomes true when the room entered is lighthouseTop and
\* is otherwise left as it was.
C23_GoFrame ==
  [][(EngineStep /\ IsMove(lastCall'.command) /\ lastCall'.result) =>
       /\ gameState'.inventory = gameState.inventory
       /\ rooms' = rooms
       /\ gameState'.flags.lanternLit = gameState.flags.lanternLit
       /\ gameState'.flags.lighthouseDoorUnlocked = gameState.flags.lighthouseDoorUnlocked
       /\ gameState'.flags.firstLook = gameState.flags.firstLook
       /\ gameState'.flags.visited \in
            {gameState.flags.visited, gameState.flags.visited \cup {gameState'.currentRoomId}}
       /\ \A k \in ProgressKeys \ {"reachedTop"} :
            gameState'.puzzleProgress[k] = gameState.puzzleProgress[k]
       /\ gameState'.puzzleProgress.reachedTop =
            IF gameState'.currentRoomId = "lighthouseTop"
                 /\ gameState.currentRoomId # "lighthouseTop"
              THEN TRUE
              ELSE gameState.puzzleProgress.reachedTop
       /\ gameState'.gameComplete = gameState.gameComplete
       /\ gameState'.password = gameState.password
       /\ gameState'.language = gameState.language]_vars

\* the top was entered by go up, with the lantern carried and unlit
C23_Witness ==
  /\ lastCall = [fn |-> "handleEngineCommand", command |-> <<"go", "up">>,
                 result |-> TRUE]
  /\ gameState.currentRoomId = "lighthouseTop"
  /\ gameState.puzzleProgress.reachedTop
  /\ gameState.inventory = <<"lantern", "smallKey">>
  /\ ~gameState.flags.lanternLit

IsLookOrInventory(cmd) ==
  cmd # <<>> /\ Verb(cmd) \in {"look", "l", "inventory", "inv", "i"}

\* C24: look, l, inventory, inv and i succeed and change nothing, in every state.
C24_LookAndInventoryPure ==
  [][(EngineStep /\ IsLookOrInventory(lastCall'.command)) =>
       (lastCall'.result /\ GameUnchanged)]_vars

\* inv was asked with nothing carried
C24_Witness ==
  /\ lastCall = [fn |-> "handleEngineCommand", command |-> <<"inv">>, result |-> TRUE]
  /\ gameState.inventory = <<>>
  /\ gameState.currentRoomId = "beach"

IsExamine(cmd) == cmd # <<>> /\ Verb(cmd) \in {"examine", "x"}

\* C25: examine or x succeeds exactly when the item it names is carried or lies in the
\* current room, and changes nothing either way.
C25_ExamineIffVisible ==
  [][(EngineStep /\ IsExamine(lastCall'.command)) =>
       LET item == normalizeItemName(Arg(lastCall'.command))
       IN /\ lastCall'.result <=>
               /\ item # Null
               /\ \/ Includes(gameState.inventory, item)
                  \/ Includes(rooms[gameState.currentRoomId], item)
          /\ GameUnchanged]_vars

\* the key was examined where it lies, before it was picked up
C25_Witness ==
  /\ lastCall = [fn |-> "handleEngineCommand", command |-> <<"x", "key">>,
                 result |-> TRUE]
  /\ gameState.currentRoomId = "lighthouseExterior"
  /\ Includes(rooms["lighthouseExterior"], "smallKey")
  /\ ~Includes(gameState.inventory, "smallKey")

\* what a command would do in the present state
Outcome(cmd) == handleEngineCommand(World(gameState, rooms), cmd)

\* the step did what cmd would have done
StepIs(cmd) ==
  /\ lastCall'.result = Outcome(cmd).ok
  /\ gameState' = Outcome(cmd).W.gameState
  /\ rooms' = Outcome(cmd).W.rooms

\* C26: for each of the seven direction words the bare word and go followed by the word
\* give the same result and the same resulting state, in every state.
C26_BareDirectionIsGo ==
  [][EngineStep =>
       \A d \in DirectionVerbs :
         /\ lastCall'.command = <<d>> => StepIs(<<"go", d>>)
         /\ lastCall'.command = <<"go", d>> => StepIs(<<d>>)]_vars

\* the bare word up led from the interior to the top
C26_Witness ==
  /\ lastCall = [fn |-> "handleEngineCommand", command |-> <<"up">>, result |-> TRUE]
  /\ gameState.currentRoomId = "lighthouseTop"
  /\ gameState.puzzleProgress.reachedTop

\* the words of the synonym table
Synonyms ==
  {"key", "smallkey", "small key", "lantern",
   "anahtar", "küçük anahtar", "küçükanahtar", "fener", "lamba"}

IsItemCommand(cmd) ==
  cmd # <<>> /\ Verb(cmd) \in {"take", "get", "examine", "x", "use"}

\* C27: take, examine or use with an argument that is missing or not in the synonym
\* table fails and changes nothing; every word of the table resolves to lantern or
\* smallKey.
C27_UnknownItemFails ==
  [][(EngineStep /\ IsItemCommand(lastCall'.command)) =>
       /\ Arg(lastCall'.command) \notin Synonyms =>
            /\ normalizeItemName(Arg(lastCall'.command)) = Null
            /\ ~lastCall'.result
            /\ GameUnchanged
       /\ \A s \in Synonyms : normalizeItemName(s) \in ItemIds
       /\ \A s \in {"key", "smallkey", "small key",
                    "anahtar", "küçük anahtar", "küçükanahtar"} :
            normalizeItemName(s) = "smallKey"
       /\ \A s \in {"lantern", "fener", "lamba"} : normalizeItemName(s) = "lantern"]_vars

\* take sword failed on the beach, where the lantern lies
C27_Witness ==
  /\ lastCall = [fn |-> "handleEngineCommand", command |-> <<"take", "sword">>,
                 result |-> FALSE]
  /\ gameState.currentRoomId = "beach"
  /\ Includes(rooms["beach"], "lantern")
  /\ gameState.inventory = <<>>

Vocabulary ==
  {"look", "l", "go", "take", "get", "inventory", "inv", "i", "examine", "x", "use"}
    \cup DirectionVerbs

IsAccepted(cmd) == cmd = <<>> \/ Verb(cmd) \notin Vocabulary

\* C28: an empty command, help, or a command whose verb is not in the vocabulary
\* succeeds, asks for no failure explanation and changes nothing.
C28_UnknownVerbAccepted ==
  [][(EngineStep /\ IsAccepted(lastCall'.command)) =>
       /\ lastCall'.result
       /\ ~followUpDue(lastCall'.result, lastCall'.command)
       /\ GameUnchanged]_vars

\* dance was accepted on the beach with the lantern carried
C28_Witness ==
  /\ lastCall = [fn |-> "handleEngineCommand", command |-> <<"dance">>, result |-> TRUE]
  /\ gameState.currentRoomId = "beach"
  /\ gameState.inventory = <<"lantern">>

\* C29: the current room is always one of the five rooms.
C29_RoomExists == gameState.currentRoomId \in RoomIds

\* at the top with every room visited, while two requests are still in flight
C29_Witness ==
  /\ gameState.currentRoomId = "lighthouseTop"
  /\ gameState.flags.visited = RoomIds
  /\ InFlightTotal = MaxInFlight

\* the place of an event in the trace of the present input, 0 when it did not happen
Place(event) ==
  IF \E i \in DOMAIN turn.events : turn.events[i] = event
    THEN CHOOSE i \in DOMAIN turn.events : turn.events[i] = event
    ELSE 0

\* C30: for each input the request is sent, then the response is received, then the
\* command is executed, and only then is the narration of that response rendered.
C30_NarrationAfterCommand ==
  Place("narration rendered") # 0 =>
    /\ Place("request sent") = 1
    /\ Place("response received") = 2
    /\ Place("command executed") # 0
    /\ Place("command executed") < Place("narration rendered")

\* C31: the player is inside the lighthouse or at its top only with the door unlocked
\* and the key carried.
C31_InsideOnlyWithKey ==
  gameState.currentRoomId \in {"lighthouseInterior", "lighthouseTop"} =>
    /\ gameState.flags.lighthouseDoorUnlocked
    /\ Includes(gameState.inventory, "smallKey")

\* inside the lighthouse, entered by go inside, without the lantern
C31_Witness ==
  /\ lastCall = [fn |-> "handleEngineCommand", command |-> <<"go", "inside">>,
                 result |-> TRUE]
  /\ gameState.currentRoomId = "lighthouseInterior"
  /\ gameState.inventory = <<"smallKey">>

\* C32: by engine commands alone, a lit beacon implies the five other progress flags.
C32_BeaconImpliesAll ==
  gameState.puzzleProgress.litBeacon =>
    \A k \in ProgressKeys : gameState.puzzleProgress[k]

\* the beacon has just been lit at the top
C32_Witness ==
  /\ lastCall = [fn |-> "handleEngineCommand", command |-> <<"use", "lantern">>,
                 result |-> TRUE]
  /\ gameState.currentRoomId = "lighthouseTop"
  /\ gameState.puzzleProgress.litBeacon

\* C33: the flags and the progress agree: lanternLit with litLantern,
\* lighthouseDoorUnlocked with unlockedDoor, foundLantern with the lantern carried and
\* foundKey with the key carried, also after service progress has been merged.
C33_FlagsAgreeWithProgress ==
  /\ gameState.flags.lanternLit = gameState.puzzleProgress.litLantern
  /\ gameState.flags.lighthouseDoorUnlocked = gameState.puzzleProgress.unlockedDoor
  /\ gameState.puzzleProgress.foundLantern = Includes(gameState.inventory, "lantern")
  /\ gameState.puzzleProgress.foundKey = Includes(gameState.inventory, "smallKey")

\* the direction that leads from a room towards another one along the single path
\* pier - beach - lighthouseExterior - lighthouseInterior - lighthouseTop
Towards(from, to) ==
  LET order == <<"pier", "beach", "lighthouseExterior", "lighthouseInterior",
                 "lighthouseTop">>
      at(r) == CHOOSE i \in 1..5 : order[i] = r
  IN IF at(from) < at(to)
       THEN (IF from = "lighthouseExterior" THEN <<"go", "inside">>
             ELSE IF from = "lighthouseInterior" THEN <<"go", "up">>
             ELSE <<"go", "north">>)
       ELSE (IF from \in {"lighthouseTop", "lighthouseInterior"} THEN <<"go", "down">>
             ELSE <<"go", "south">>)

\* the next command of a player who fetches the lantern, then the key, unlocks the
\* door, lights the lantern away from the top, climbs and lights the beacon
Plan(W) ==
  LET gs   == W.gameState
      here == gs.currentRoomId
  IN IF ~Includes(gs.inventory, "lantern")
       THEN (IF here = "beach" THEN <<"take", "lantern">> ELSE Towards(here, "beach"))
     ELSE IF ~Includes(gs.inventory, "smallKey")
       THEN (IF here = "lighthouseExterior" THEN <<"take", "key">>
             ELSE Towards(here, "lighthouseExterior"))
     ELSE IF ~gs.flags.lighthouseDoorUnlocked
       THEN (IF here = "lighthouseExterior" THEN <<"use", "key">>
             ELSE Towards(here, "lighthouseExterior"))
     ELSE IF ~gs.flags.lanternLit
       THEN (IF here = "lighthouseTop" THEN <<"go", "down">> ELSE <<"use", "lantern">>)
     ELSE IF here = "lighthouseTop" THEN <<"use", "lantern">>
     ELSE Towards(here, "lighthouseTop")

RECURSIVE Solves(_, _)
\* the player's commands light the beacon within n steps
Solves(W, n) ==
  IF W.gameState.puzzleProgress.litBeacon THEN TRUE
  ELSE IF n = 0 THEN FALSE
  ELSE Solves(handleEngineCommand(W, Plan(W)).W, n - 1)

\* C34: from every state reachable by engine commands some finite sequence of engine
\* commands lights the beacon.
C34_NoDeadEnd == Solves(World(gameState, rooms), MaxPlan)

\* at the top with the lantern unlit, where use lantern has just failed, and without
\* the beacon: the player has to go down, light the lantern and climb again
C34_Witness ==
  /\ lastCall = [fn |-> "handleEngineCommand", command |-> <<"use", "lantern">>,
                 result |-> FALSE]
  /\ gameState.currentRoomId = "lighthouseTop"
  /\ ~gameState.flags.lanternLit
  /\ ~gameState.puzzleProgress.litBeacon
  /\ ~Solves(World(gameState, rooms), 3)

\* s is a prefix of t
IsPrefix(s, t) == Len(s) <= Len(t) /\ \A i \in 1..Len(s) : s[i] = t[i]

\* C35: the inventory only grows: no step removes an item from it or puts an item
\* back into a room, it never holds an item twice and never more than two items.
C35_InventoryOnlyGrows ==
  [][/\ IsPrefix(gameState.inventory, gameState'.inventory)
     /\ \A r \in RoomIds : Range(rooms'[r]) \subseteq Range(rooms[r])
     /\ \A i, j \in 1..Len(gameState'.inventory) :
          gameState'.inventory[i] = gameState'.inventory[j] => i = j
     /\ Len(gameState'.inventory) <= 2]_vars

\* both items carried, key first, after the service reported the game complete
C35_Witness ==
  /\ gameState.inventory = <<"smallKey", "lantern">>
  /\ rooms["beach"] = <<>>
  /\ rooms["lighthouseExterior"] = <<>>
  /\ gameState.gameComplete

\* C36: once gameComplete is true, or once a password is stored, no step changes
\* password; a game reported complete without a password keeps password null.
C36_PasswordAtMostOnce ==
  [][(gameState.gameComplete \/ gameState.password # Null) =>
       /\ gameState'.password = gameState.password
       /\ gameState'.gameComplete]_vars

\* the game was reported complete without a password, and the session went on to the
\* top of the lighthouse with the beacon lit: password is still null
C36_Witness ==
  /\ gameState.gameComplete
  /\ gameState.password = Null
  /\ gameState.currentRoomId = "lighthouseTop"
  /\ gameState.puzzleProgress.litBeacon
  /\ gameState.flags.lanternLit

====
